---- MODULE Spec2Model ----
(***************************************************************************)
(* Class help queue (src/app.py): a Streamlit front end over one Google    *)
(* Sheets worksheet.  The worksheet is the only shared state; every gspread*)
(* call is one synchronous round trip, and the sessions' script runs       *)
(* interleave between round trips.                                         *)
(***************************************************************************)
EXTENDS Integers, Sequences, FiniteSets, TLC

\* ------------------------------------------------------------- bounds
\* Number of uuid4 draws (rows ever appended) in one behaviour.
MaxIds == 3
\* The concurrently running sessions (script runs).
Sessions == {"s1", "s2"}
\* The values datetime.utcnow().isoformat() may take; ISO strings of one
\* format order as the instants they denote, so instants stand for them.
Timestamps == {1, 2}
\* The (name, rating) arguments add_help_request is called with.
Inputs == {<<"Anthony", 1>>, <<"Anthony", 10>>, <<"Student 2", 0>>,
           <<"Student 2", 11>>, <<"", 5>>}
\* The valid arguments the listing's order is checked with.
SortInputs == {<<"Anthony", 1>>, <<"Student 2", 10>>}
\* The arguments and instants of the runs where cell contents play no part.
ConcurrentInputs == {<<"Anthony", 5>>}
ConcurrentTimestamps == {1}
\* The selectbox values Continue is pressed with, and the values the level
\* slider is moved to.
LoginChoices == {"-- choose --", "Anthony", "Student 2"}
LevelChoices == {1, 5, 10}
\* What row 1 of the worksheet may hold before the program first runs.
InitialHeaders == {<<>>, <<"id", "name">>,
                   <<"id", "name", "rating", "timestamp", "status">>}

\* ------------------------------------------------------------- config
STUDENTS == <<"Anthony", "Student 2", "Student 3", "Student 4">>

expected == <<"id", "name", "rating", "timestamp", "status">>

VARIABLES
  header,   \* row 1 of the worksheet, as ws.row_values(1) returns it
  rows,     \* rows 2.. of the worksheet, top to bottom
  nextId,   \* the next value uuid.uuid4() returns (never repeats)
  pc,       \* per session: the round trip its running script makes next
  frame,    \* per session: the locals of the running script
  out,      \* per session: df_pending while its Instructor-View renders
  msg,      \* per session: the message or exception its last run showed
  user,     \* per session: st.session_state["user"]
  page,     \* per session: st.session_state["page"]
  student_levels, \* per session: st.session_state["student_levels"]
  radio,    \* per session: the sidebar radio "Go to"
  slider,   \* per session: the level slider of the Level-Selection screen
  fresh,    \* history: the requests appended since the last cell update or resize
  wrote,    \* history: ws.update("A1:E1") has run
  cleared,  \* history: "reset" once a resize has run, "listed" once a listing
            \* has read the sheet after it, "no" from the next append_row on
  no_match  \* history: the step just taken was a scan of mark_as_helped that
            \* found no row with the id it looked for

vars == <<header, rows, nextId, pc, frame, out, msg, user, page, student_levels,
          radio, slider, fresh, wrote, cleared, no_match>>

store == <<header, rows>>
session_state == <<user, page, student_levels, radio, slider>>
hist == <<fresh, wrote, cleared>>

\* a key that st.session_state does not hold
Unset == "(unset)"

\* the button a script run was started by: none, Clear ALL, or the Helped
\* button whose key is a row id
NoClick == [button |-> "none", key |-> 0]
ResetClick == [button |-> "reset", key |-> 0]
HelpedClick(id) == [button |-> "Helped", key |-> id]
Clicks == {NoClick, ResetClick} \cup {HelpedClick(id) : id \in 1..MaxIds}

NoFrame == [op |-> "none", name |-> "", rating |-> 0, request_id |-> 0,
            idx |-> 0, click |-> NoClick]

\* ------------------------------------------------------------- helpers
\* int(rating) on an int argument
int(x) == x

\* new_row with an id that is not drawn afresh
new_row_fixed_id(request_id, name, rating, now) ==
  [id |-> 1, name |-> name, rating |-> int(rating),
   timestamp |-> now, status |-> "pending"]

\* row = [request_id, name, int(rating), now, "pending"]
new_row(request_id, name, rating, now) ==
  [id |-> request_id, name |-> name, rating |-> int(rating),
   timestamp |-> now, status |-> "pending"]

\* headers_differ with the comparison turned round
headers_equal(existing) == existing = expected

\* existing != expected
headers_differ(existing) == existing # expected

\* ws.get_all_records(): the data rows keyed by row 1.  Data rows exist only
\* under the expected header (HeaderBeforeRows), so the keys are the fields.
get_all_records(rs) == rs

\* the listing without the filter on status
pending_only_all(df) == df

\* df[df["status"] == "pending"]
RECURSIVE pending_only(_)
pending_only(df) ==
  IF df = <<>> THEN <<>>
  ELSE IF Head(df).status = "pending"
       THEN <<Head(df)>> \o pending_only(Tail(df))
       ELSE pending_only(Tail(df))

\* key_lt of sort_values(["rating"]): the timestamp left out
key_lt_rating_only(a, b) == a.rating < b.rating

\* the order of sort_values(["rating", "timestamp"]): a strictly before b
key_lt(a, b) ==
  \/ a.rating < b.rating
  \/ a.rating = b.rating /\ a.timestamp < b.timestamp

RECURSIVE insert_sorted(_, _)
insert_sorted(r, s) ==
  IF s = <<>> THEN <<r>>
  ELSE IF key_lt(r, Head(s)) THEN <<r>> \o s
       ELSE <<Head(s)>> \o insert_sorted(r, Tail(s))

\* df_pending.sort_values(["rating", "timestamp"]): ascending, ties keep
\* their order
RECURSIVE sort_values(_)
sort_values(df) ==
  IF df = <<>> THEN <<>>
  ELSE insert_sorted(df[Len(df)], sort_values(SubSeq(df, 1, Len(df) - 1)))

\* lines 136-150: the listing the Instructor-View shows
list_pending(records) == sort_values(pending_only(records))

\* find_row with enumerate(records, start=1)
find_row_start_1(records, request_id) ==
  IF \E i \in 1..Len(records) : records[i].id = request_id
  THEN CHOOSE i \in 1..Len(records) :
         /\ records[i].id = request_id
         /\ \A j \in 1..(i - 1) : records[j].id # request_id
  ELSE 0

\* find_row that keeps the last idx of the loop when no id matched
find_row_falls_through(records, request_id) ==
  IF \E i \in 1..Len(records) : records[i].id = request_id
  THEN 1 + CHOOSE i \in 1..Len(records) :
             /\ records[i].id = request_id
             /\ \A j \in 1..(i - 1) : records[j].id # request_id
  ELSE Len(records) + 1

\* for idx, row in enumerate(records, start=2): if row.get("id") == request_id
\* the sheet row of the first match, 0 when the loop ends without one
find_row(records, request_id) ==
  IF \E i \in 1..Len(records) : records[i].id = request_id
  THEN 1 + CHOOSE i \in 1..Len(records) :
             /\ records[i].id = request_id
             /\ \A j \in 1..(i - 1) : records[j].id # request_id
  ELSE 0

\* ws.update("A1:E1", [expected]) on the sheet <<row 1, data rows>>
update_A1E1(h, rs) == <<expected, rs>>

\* lines 45-50: ensure_headers as one call on the sheet <<row 1, data rows>>
ensure_headers_call(h, rs) ==
  IF headers_differ(h) THEN update_A1E1(h, rs) ELSE <<h, rs>>

\* ws.update_cell(idx, 5, "helped") on the sheet <<row 1, data rows>>: sheet
\* row idx is row 1 or data row idx - 1, column 5 is status.  After
\* resize(rows=1) the grid ends at the last appended row, and the API
\* refuses a cell outside the grid.
in_grid(rs, idx) == idx \in 1..(Len(rs) + 1)

\* update_cell that flips the status cell instead of setting it
update_cell_toggle(h, rs, idx) ==
  IF idx - 1 \in 1..Len(rs)
  THEN <<h, [rs EXCEPT ![idx - 1].status =
                 IF @ = "helped" THEN "pending" ELSE "helped"]>>
  ELSE <<h, rs>>

\* update_cell(idx, 2, "helped"): the name column instead of the status column
update_cell_col_2(h, rs, idx) ==
  IF idx - 1 \in 1..Len(rs)
  THEN <<h, [rs EXCEPT ![idx - 1].name = "helped"]>>
  ELSE <<h, rs>>

\* ws.delete_rows(idx) in the place of update_cell: the row is taken out
update_cell_delete(h, rs, idx) ==
  IF idx - 1 \in 1..Len(rs)
  THEN <<h, SubSeq(rs, 1, idx - 2) \o SubSeq(rs, idx, Len(rs))>>
  ELSE <<h, rs>>

\* update_cell that sets the status of sheet row idx and of every row below it
update_cell_downward(h, rs, idx) ==
  IF idx - 1 \in 1..Len(rs)
  THEN <<h, [k \in 1..Len(rs) |->
               IF k >= idx - 1 THEN [rs[k] EXCEPT !.status = "helped"] ELSE rs[k]]>>
  ELSE <<h, rs>>

update_cell(h, rs, idx) ==
  IF idx = 1
  THEN <<[i \in 1..5 |-> IF i = 5 THEN "helped"
                          ELSE IF i <= Len(h) THEN h[i] ELSE ""], rs>>
  ELSE IF in_grid(rs, idx)
       THEN <<h, [rs EXCEPT ![idx - 1].status = "helped"]>>
       ELSE <<h, rs>>

\* resize(rows=2): the first data row is kept too
resize_rows_2(h, rs) == <<h, SubSeq(rs, 1, IF Len(rs) > 0 THEN 1 ELSE 0)>>

\* ws.resize(rows=1) on the sheet: the grid keeps row 1 only
resize(h, rs) == <<h, <<>>>>

\* ------------------------------------------------------------- steps
Finish(s, m) ==
  /\ pc' = [pc EXCEPT ![s] = "idle"]
  /\ frame' = [frame EXCEPT ![s] = NoFrame]
  /\ msg' = [msg EXCEPT ![s] = m]

Goto(s, label) ==
  /\ pc' = [pc EXCEPT ![s] = label]
  /\ msg' = [msg EXCEPT ![s] = ""]

\* lines 47-49 as the first round trip of a call: ws.row_values(1) is read
\* and compared
Enter(s, f) ==
  /\ pc[s] = "idle"
  /\ no_match' = FALSE
  /\ frame' = [frame EXCEPT ![s] = f]
  /\ Goto(s, IF headers_differ(header) THEN "ensure_headers"
             ELSE IF f.op = "add" THEN "append_row" ELSE "get_all_records")
  /\ UNCHANGED <<store, nextId, out, hist>>

\* lines 55-57: add_help_request is entered; ensure_headers reads row 1
add_help_request(s, name, rating) ==
  /\ nextId <= MaxIds
  /\ Enter(s, [NoFrame EXCEPT !.op = "add", !.name = name, !.rating = rating])
  /\ UNCHANGED session_state

\* lines 66-68: load_requests is entered; ensure_headers reads row 1
load_requests(s) ==
  /\ Enter(s, [NoFrame EXCEPT !.op = "load"])
  /\ UNCHANGED session_state

\* line 50: ws.update("A1:E1", [expected])
ensure_headers(s) ==
  /\ pc[s] = "ensure_headers"
  /\ no_match' = FALSE
  /\ LET sheet == update_A1E1(header, rows)
     IN  header' = sheet[1] /\ rows' = sheet[2]
  /\ Goto(s, IF frame[s].op = "add" THEN "append_row" ELSE "get_all_records")
  /\ wrote' = TRUE
  /\ UNCHANGED <<nextId, frame, out, session_state, fresh, cleared>>

\* lines 59-63: uuid4, utcnow, ws.append_row(row)
append_row(s, now) ==
  /\ pc[s] = "append_row"
  /\ no_match' = FALSE
  /\ rows' = Append(rows, new_row(nextId, frame[s].name, frame[s].rating, now))
  /\ nextId' = nextId + 1
  /\ fresh' = fresh \cup {[id |-> nextId, name |-> frame[s].name,
                           rating |-> frame[s].rating]}
  /\ cleared' = "no"
  /\ Finish(s, "")
  /\ UNCHANGED <<header, out, session_state, wrote>>

\* show_pending without the return of lines 145-147: a listing with no
\* pending row goes on to the controls
show_pending_no_return(s) ==
  /\ pc[s] = "get_all_records"
  /\ no_match' = FALSE
  /\ LET df == get_all_records(rows)
         df_pending == list_pending(df)
     IN  IF df = <<>>
         THEN Finish(s, "No help requests yet.") /\ UNCHANGED out
         ELSE /\ out' = [out EXCEPT ![s] = df_pending]
              /\ Goto(s, "render")
              /\ UNCHANGED frame
  /\ cleared' = IF cleared = "reset" THEN "listed" ELSE cleared
  /\ UNCHANGED <<store, nextId, session_state, fresh, wrote>>

\* lines 70-74, 136-150: ws.get_all_records(), the two early returns, the
\* pending filter, the sort
show_pending(s) ==
  /\ pc[s] = "get_all_records"
  /\ no_match' = FALSE
  /\ LET df == get_all_records(rows)
         df_pending == list_pending(df)
     IN  IF df = <<>>
         THEN Finish(s, "No help requests yet.") /\ UNCHANGED out
         ELSE IF df_pending = <<>>
         THEN Finish(s, "No pending requests.") /\ UNCHANGED out
         ELSE /\ out' = [out EXCEPT ![s] = df_pending]
              /\ Goto(s, "render")
              /\ UNCHANGED frame
  /\ cleared' = IF cleared = "reset" THEN "listed" ELSE cleared
  /\ UNCHANGED <<store, nextId, session_state, fresh, wrote>>

\* st.experimental_rerun(): main runs again, into show_instructor_view
Rerun(s) ==
  /\ frame' = [frame EXCEPT ![s] = [NoFrame EXCEPT !.op = "view"]]
  /\ Goto(s, IF headers_differ(header) THEN "ensure_headers" ELSE "get_all_records")

\* lines 152-174 with no button of the listing pressed: the run ends
render(s) ==
  /\ pc[s] = "render"
  /\ no_match' = FALSE
  /\ \/ frame[s].click.button = "none"
     \/ /\ frame[s].click.button = "Helped"
        /\ \A i \in 1..Len(out[s]) : out[s][i].id # frame[s].click.key
  /\ out' = [out EXCEPT ![s] = <<>>]
  /\ Finish(s, "")
  /\ UNCHANGED <<store, nextId, session_state, hist>>

\* lines 79-82: ws.get_all_records() and the scan for request_id
Scan(s, request_id, after) ==
  LET idx == find_row(get_all_records(rows), request_id)
  IN  /\ IF idx = 0
         THEN after
         ELSE /\ frame' = [frame EXCEPT ![s] = [@ EXCEPT !.request_id = request_id,
                                                        !.idx = idx]]
              /\ Goto(s, "update_cell")
      /\ no_match' = (idx = 0)
      /\ UNCHANGED <<store, nextId, session_state, hist>>

\* lines 77-82: mark_as_helped is called
mark_as_helped(s, request_id) ==
  /\ pc[s] = "idle"
  /\ Scan(s, request_id, Finish(s, ""))
  /\ UNCHANGED out

\* lines 161-168: the Helped button of a listed row was pressed
button_helped(s) ==
  /\ pc[s] = "render"
  /\ frame[s].click.button = "Helped"
  /\ \E i \in 1..Len(out[s]) : out[s][i].id = frame[s].click.key
  /\ out' = [out EXCEPT ![s] = <<>>]
  /\ Scan(s, frame[s].click.key, Rerun(s))

\* write_helped that looks at the sheet again and gives up when the row the
\* scan found is gone
write_helped_checked(s) ==
  /\ pc[s] = "update_cell"
  /\ no_match' = FALSE
  /\ LET sheet == IF in_grid(rows, frame[s].idx)
                  THEN update_cell(header, rows, frame[s].idx)
                  ELSE <<header, rows>>
     IN  header' = sheet[1] /\ rows' = sheet[2]
  /\ fresh' = {}
  /\ IF frame[s].op = "view" THEN Rerun(s) ELSE Finish(s, "")
  /\ UNCHANGED <<nextId, out, session_state, wrote, cleared>>

\* line 84: ws.update_cell(idx, 5, "helped"); line 168 after a button
write_helped(s) ==
  /\ pc[s] = "update_cell"
  /\ no_match' = FALSE
  /\ LET sheet == update_cell(header, rows, frame[s].idx)
     IN  header' = sheet[1] /\ rows' = sheet[2]
  /\ fresh' = {}
  /\ IF ~in_grid(rows, frame[s].idx) THEN Finish(s, "APIError")
     ELSE IF frame[s].op = "view" THEN Rerun(s)
     ELSE Finish(s, "")
  /\ UNCHANGED <<nextId, out, session_state, wrote, cleared>>

\* line 90: ws.resize(rows=1)
Resize ==
  /\ no_match' = FALSE
  /\ LET sheet == resize(header, rows)
     IN  header' = sheet[1] /\ rows' = sheet[2]
  /\ fresh' = {}
  /\ cleared' = "reset"
  /\ UNCHANGED <<nextId, session_state, wrote>>

\* lines 88-90: clear_all is called
clear_all(s) ==
  /\ pc[s] = "idle"
  /\ Resize
  /\ Finish(s, "")
  /\ UNCHANGED out

\* lines 171-174: the Clear ALL button was pressed
button_reset(s) ==
  /\ pc[s] = "render"
  /\ frame[s].click.button = "reset"
  /\ out' = [out EXCEPT ![s] = <<>>]
  /\ Resize
  /\ Rerun(s)

\* ------------------------------------------------------------- screens
\* lines 182-193: the screen main shows a session
main(s) ==
  IF user[s] = Unset THEN "show_login"
  ELSE IF page[s] = "student_level" THEN "show_student_level"
  ELSE IF radio[s] = "Student View" THEN "show_student_view"
  ELSE "show_instructor_view"

\* show_login without the test for the placeholder
show_login_unchecked(s, name) ==
  /\ pc[s] = "idle"
  /\ no_match' = FALSE
  /\ user[s] = Unset
  /\ user' = [user EXCEPT ![s] = name]
  /\ page' = [page EXCEPT ![s] = "student_level"]
  /\ msg' = [msg EXCEPT ![s] = ""]
  /\ UNCHANGED <<header, rows, nextId, pc, frame, out, student_levels, radio,
                 slider, fresh, wrote, cleared>>

\* lines 95-103: Continue is pressed with the selectbox at name
show_login(s, name) ==
  /\ pc[s] = "idle"
  /\ no_match' = FALSE
  /\ main(s) = "show_login"
  /\ IF name = "-- choose --"
     THEN /\ msg' = [msg EXCEPT ![s] = "Please select your name."]
          /\ UNCHANGED <<user, page>>
     ELSE /\ user' = [user EXCEPT ![s] = name]
          /\ page' = [page EXCEPT ![s] = "student_level"]
          /\ msg' = [msg EXCEPT ![s] = ""]
  /\ UNCHANGED <<store, nextId, pc, frame, out, student_levels, radio, slider, hist>>

\* line 110: the value st.slider(..., 1, 10, 5) starts with
slider_default == 5

\* line 110: the slider is moved to level; the run that follows presses no
\* button
move_slider(s, level) ==
  /\ pc[s] = "idle"
  /\ no_match' = FALSE
  /\ main(s) = "show_student_level"
  /\ level \in 1..10
  /\ slider[s] # level
  /\ slider' = [slider EXCEPT ![s] = level]
  /\ msg' = [msg EXCEPT ![s] = ""]
  /\ UNCHANGED <<store, nextId, pc, frame, out, user, page, student_levels,
                 radio, hist>>

\* show_student_level that records the level and leaves page as it is
show_student_level_stays(s, level) ==
  /\ pc[s] = "idle"
  /\ no_match' = FALSE
  /\ main(s) = "show_student_level"
  /\ level = slider[s]
  /\ student_levels' = [student_levels EXCEPT ![s] = (user[s] :> level) @@ @]
  /\ msg' = [msg EXCEPT ![s] = ""]
  /\ UNCHANGED <<store, nextId, pc, frame, out, user, page, radio, slider, hist>>

\* lines 108-115: Save Level is pressed with the slider at level
show_student_level(s, level) ==
  /\ pc[s] = "idle"
  /\ no_match' = FALSE
  /\ main(s) = "show_student_level"
  /\ level = slider[s]
  /\ student_levels' = [student_levels EXCEPT ![s] = (user[s] :> level) @@ @]
  /\ page' = [page EXCEPT ![s] = "student_view"]
  /\ msg' = [msg EXCEPT ![s] = ""]
  /\ UNCHANGED <<store, nextId, pc, frame, out, user, radio, slider, hist>>

\* sidebar_radio that stores the choice in page too, so that leaving the
\* Instructor-View lands on the level selection
sidebar_radio_sets_page(s, choice) ==
  /\ pc[s] = "idle"
  /\ no_match' = FALSE
  /\ main(s) \in {"show_student_view", "show_instructor_view"}
  /\ radio[s] # choice
  /\ radio' = [radio EXCEPT ![s] = choice]
  /\ page' = [page EXCEPT ![s] = IF choice = "Student View" THEN "student_level"
                                 ELSE @]
  /\ msg' = [msg EXCEPT ![s] = ""]
  /\ UNCHANGED <<store, nextId, pc, frame, out, user, student_levels, slider, hist>>

\* line 188: the sidebar radio is set
sidebar_radio(s, choice) ==
  /\ pc[s] = "idle"
  /\ no_match' = FALSE
  /\ main(s) \in {"show_student_view", "show_instructor_view"}
  /\ radio[s] # choice
  /\ radio' = [radio EXCEPT ![s] = choice]
  /\ msg' = [msg EXCEPT ![s] = ""]
  /\ UNCHANGED <<store, nextId, pc, frame, out, user, page, student_levels,
                 slider, hist>>

\* lines 120-128: Request Help is pressed.  The argument rating of line 127
\* is no local, parameter or global of the module: evaluating it raises
\* NameError before add_help_request is called, and line 128 is not reached.
show_student_view(s) ==
  /\ pc[s] = "idle"
  /\ no_match' = FALSE
  /\ main(s) = "show_student_view"
  /\ msg' = [msg EXCEPT ![s] = "NameError"]
  /\ UNCHANGED <<store, nextId, pc, frame, out, session_state, hist>>

\* lines 133-136: the Instructor-View runs, with the button pressed (if any)
show_instructor_view(s, click) ==
  /\ main(s) = "show_instructor_view"
  /\ Enter(s, [NoFrame EXCEPT !.op = "view", !.click = click])
  /\ UNCHANGED session_state

\* ------------------------------------------------------------- specification
InitSessions ==
  /\ pc = [s \in Sessions |-> "idle"]
  /\ frame = [s \in Sessions |-> NoFrame]
  /\ out = [s \in Sessions |-> <<>>]
  /\ msg = [s \in Sessions |-> ""]
  /\ user = [s \in Sessions |-> Unset]
  /\ page = [s \in Sessions |-> Unset]
  /\ student_levels = [s \in Sessions |-> <<>>]
  /\ radio = [s \in Sessions |-> "Student View"]
  /\ slider = [s \in Sessions |-> slider_default]
  /\ fresh = {}
  /\ wrote = FALSE
  /\ cleared = "no"
  /\ no_match = FALSE

Init ==
  /\ header \in InitialHeaders
  /\ rows = <<>>
  /\ nextId = 1
  /\ InitSessions

\* The round trips every script run is made of.
Trip(s) ==
  \/ ensure_headers(s)
  \/ show_pending(s)
  \/ render(s)
  \/ write_helped(s)

\* The repository's functions, called with arguments ins at the instants times.
Step(s, ins, times) ==
  \/ \E in \in ins : add_help_request(s, in[1], in[2])
  \/ \E now \in times : append_row(s, now)
  \/ load_requests(s)
  \/ \E id \in 1..MaxIds : mark_as_helped(s, id)
  \/ clear_all(s)
  \/ Trip(s)

\* The sessions' calls interleave between round trips.
Next == \E s \in Sessions : Step(s, ConcurrentInputs, ConcurrentTimestamps)

Spec == Init /\ [][Next]_vars

\* One call at a time: a session moves only while every other is idle.
Alone(s) == \A t \in Sessions \ {s} : pc[t] = "idle"

NextSeq ==
  \E s \in Sessions :
    \/ \E in \in Inputs : Alone(s) /\ add_help_request(s, in[1], in[2])
    \/ \E now \in ConcurrentTimestamps : Alone(s) /\ append_row(s, now)
    \/ Alone(s) /\ load_requests(s)
    \/ \E id \in 1..MaxIds : Alone(s) /\ mark_as_helped(s, id)
    \/ Alone(s) /\ clear_all(s)
    \/ Alone(s) /\ ensure_headers(s)
    \/ Alone(s) /\ show_pending(s)
    \/ Alone(s) /\ render(s)
    \/ Alone(s) /\ write_helped(s)

SpecSeq == Init /\ [][NextSeq]_vars

\* One call at a time, with requests of two ratings at two instants.
NextSort ==
  \E s \in Sessions :
    \/ \E in \in SortInputs : Alone(s) /\ add_help_request(s, in[1], in[2])
    \/ \E now \in Timestamps : Alone(s) /\ append_row(s, now)
    \/ Alone(s) /\ load_requests(s)
    \/ \E id \in 1..MaxIds : Alone(s) /\ mark_as_helped(s, id)
    \/ Alone(s) /\ clear_all(s)
    \/ Alone(s) /\ ensure_headers(s)
    \/ Alone(s) /\ show_pending(s)
    \/ Alone(s) /\ render(s)
    \/ Alone(s) /\ write_helped(s)

SpecSort == Init /\ [][NextSort]_vars

\* The worksheet as two calls of add_help_request leave it.
SeedRows == <<new_row(1, "Anthony", 5, 1), new_row(2, "Student 2", 3, 2)>>

InitUI ==
  /\ \/ header \in InitialHeaders /\ rows = <<>> /\ nextId = 1
     \/ header = expected /\ rows = SeedRows /\ nextId = 3
  /\ InitSessions

\* What a user can do on the screens, and the round trips that follow.
NextUI ==
  \E s \in Sessions :
    \/ \E name \in LoginChoices : show_login(s, name)
    \/ \E level \in LevelChoices : move_slider(s, level)
    \/ \E level \in LevelChoices : show_student_level(s, level)
    \/ \E choice \in {"Student View", "Instructor View"} : sidebar_radio(s, choice)
    \/ show_student_view(s)
    \/ \E click \in Clicks : show_instructor_view(s, click)
    \/ button_helped(s)
    \/ button_reset(s)
    \/ Trip(s)

SpecUI == InitUI /\ [][NextUI]_vars

\* ------------------------------------------------------------- properties
Ids(seq) == {seq[i].id : i \in 1..Len(seq)}
Roster == {STUDENTS[i] : i \in 1..Len(STUDENTS)}
Valid(name, rating) == rating \in 1..10 /\ name # ""

\* Data rows exist only under the expected header: every append_row follows
\* an ensure_headers, and nothing rewrites row 1 afterwards.
HeaderBeforeRows == rows # <<>> => header = expected

\* C1: a listing read after add_help_request(name, rating), rating in 1..10,
\* with no cell update and no resize in between, holds exactly one entry with
\* the new id; the entry has that name and rating and status pending, and no
\* other row of the sheet has its id.
C1_SubmitThenList ==
  [][\A s \in Sessions :
       (pc[s] = "get_all_records" /\ pc'[s] # "get_all_records") =>
         \A f \in fresh :
           f.rating \in 1..10 =>
             /\ Cardinality({i \in 1..Len(out'[s]) : out'[s][i].id = f.id}) = 1
             /\ \A i \in 1..Len(out'[s]) :
                  out'[s][i].id = f.id =>
                    /\ out'[s][i].name = f.name
                    /\ out'[s][i].rating = f.rating
                    /\ out'[s][i].status = "pending"
             /\ Cardinality({j \in 1..Len(rows') : rows'[j].id = f.id}) = 1]_vars

\* C1 witness: a listing is on show that holds a request appended since the
\* last cell update or resize, next to an older row of the sheet.
C1_Witness ==
  \E s \in Sessions :
    /\ pc[s] = "render"
    /\ Len(rows) >= 2
    /\ \E f \in fresh :
         /\ f.rating \in 1..10
         /\ f.id = rows[Len(rows)].id
         /\ f.id \in Ids(out[s])

\* C2: every listing is sorted non-decreasing by (rating, timestamp).
C2_ListingSorted ==
  \A s \in Sessions :
    \A i \in 1..(Len(out[s]) - 1) :
      \/ out[s][i].rating < out[s][i + 1].rating
      \/ /\ out[s][i].rating = out[s][i + 1].rating
         /\ out[s][i].timestamp <= out[s][i + 1].timestamp

\* C2 witness: a listing of three requests that the sort had to reverse: the
\* last appended first (lowest rating, oldest), the first appended last.
C2_Witness ==
  \E s \in Sessions :
    /\ Len(out[s]) = 3
    /\ out[s][1].id > out[s][2].id
    /\ out[s][2].id > out[s][3].id
    /\ out[s][1].rating = out[s][2].rating
    /\ out[s][1].timestamp < out[s][2].timestamp
    /\ out[s][2].rating < out[s][3].rating

\* C3: with one call at a time, when mark_as_helped(id) has written, id is
\* not in the listing of the sheet, and a second mark_as_helped(id) finds the
\* row and leaves the sheet as it is; a write on a row already helped changes
\* nothing.
C3_MarkHelpedIdempotent ==
  [][\A s \in Sessions :
       (pc[s] = "update_cell" /\ pc'[s] # "update_cell") =>
         LET id == frame[s].request_id
             again == find_row(get_all_records(rows'), id)
         IN  /\ id \notin Ids(list_pending(get_all_records(rows')))
             /\ again # 0
             /\ update_cell(header', rows', again) = <<header', rows'>>
             /\ rows[frame[s].idx - 1].status = "helped" =>
                  (rows' = rows /\ header' = header)]_vars

\* C3 witness: a second mark_as_helped(id) has found the row of id, which the
\* first one has set to helped, and is about to write; another row is pending.
C3_Witness ==
  \E s \in Sessions :
    /\ pc[s] = "update_cell"
    /\ frame[s].idx - 1 \in 1..Len(rows)
    /\ rows[frame[s].idx - 1].id = frame[s].request_id
    /\ rows[frame[s].idx - 1].status = "helped"
    /\ \E i \in 1..Len(rows) : rows[i].status = "pending"

\* C4: clear_all removes every data row and leaves row 1 as it was; a
\* listing read after it, before any append_row, is empty, and row 1 is then
\* the expected header.
C4_ResetThenList ==
  [][\A s \in Sessions :
       /\ clear_all(s) => (rows' = <<>> /\ header' = header)
       /\ (show_pending(s) /\ cleared \in {"reset", "listed"}) =>
            /\ out'[s] = <<>>
            /\ list_pending(get_all_records(rows')) = <<>>
            /\ msg'[s] = "No help requests yet."
            /\ header' = expected]_vars

\* C4 witness: rows were appended, a resize removed them, and a listing read
\* after the resize has reported that there are no requests.
C4_Witness ==
  /\ cleared = "listed"
  /\ nextId > 1
  /\ rows = <<>>
  /\ \E s \in Sessions : msg[s] = "No help requests yet." /\ pc[s] = "idle"

\* C5 (as claimed): add_help_request with a rating outside 1..10 or with an
\* empty name fails with ValidationError and appends nothing, so that no row
\* with such a rating or name is ever in the sheet.
C5_NoInvalidRow ==
  \A i \in 1..Len(rows) : Valid(rows[i].name, rows[i].rating)

\* C6: in every step of every interleaving, a row that is new to the sheet
\* has status pending, and a row that is helped and stays in the sheet stays
\* helped.
C6_StatusMonotonic ==
  [][/\ \A j \in 1..Len(rows') :
          rows'[j].id \notin Ids(rows) => rows'[j].status = "pending"
     /\ \A i \in 1..Len(rows) : \A j \in 1..Len(rows') :
          (rows[i].id = rows'[j].id /\ rows[i].status = "helped")
            => rows'[j].status = "helped"]_vars

\* C6 witness: a row is helped and another session's write on that same row
\* is still to land.
C6_Witness ==
  \E s \in Sessions :
    /\ pc[s] = "update_cell"
    /\ frame[s].idx - 1 \in 1..Len(rows)
    /\ rows[frame[s].idx - 1].status = "helped"
    /\ \E t \in Sessions \ {s} : pc[t] # "idle"

\* C7: once row 1 is the expected header it stays so in every step of every
\* interleaving.
C7_HeaderStays == [][header = expected => header' = expected]_vars

\* C7 witness: row 1 is the expected header after a mark_as_helped write
\* landed behind a concurrent resize, outside the grid.
C7_Witness ==
  /\ header = expected
  /\ wrote
  /\ \E s \in Sessions : msg[s] = "APIError"

\* C8: ensure_headers applied twice gives the sheet it gives applied once;
\* a call that reads the expected header goes on without the write and
\* changes nothing; the write leaves the expected header and the data rows.
C8_EnsureHeadersIdempotent ==
  /\ [](LET once == ensure_headers_call(header, rows)
        IN  /\ ensure_headers_call(once[1], once[2]) = once
            /\ once[1] = expected
            /\ once[2] = rows)
  /\ [][\A s \in Sessions :
          /\ (pc[s] = "idle" /\ pc'[s] # "idle" /\ header = expected) =>
               (pc'[s] # "ensure_headers" /\ header' = header /\ rows' = rows)
          /\ ensure_headers(s) => (header' = expected /\ rows' = rows)]_vars

\* C8 witness: ensure_headers has written row 1 in an earlier call, and a later
\* call has read row 1 and gone on without the write.
C8_Witness ==
  /\ wrote
  /\ nextId > 1
  /\ header = expected
  /\ \E s \in Sessions : pc[s] = "get_all_records"

\* C9 (as claimed): the run that Request Help starts appends one pending row
\* for the session's user and reports success.
C9_RequestHelpSubmits ==
  [][\A s \in Sessions :
       show_student_view(s) =>
         /\ Len(rows') = Len(rows) + 1
         /\ rows'[Len(rows')].name = user[s]
         /\ rows'[Len(rows')].status = "pending"
         /\ msg'[s] = "Your help request has been submitted"]_vars

\* C10: Continue with a roster name sets user to it and leads to the level
\* screen; Continue with the placeholder shows the error, leaves user unset
\* and stays on the login screen; user is always unset or a roster name.
C10_Login ==
  /\ [](\A s \in Sessions : user[s] \in {Unset} \cup Roster)
  /\ [][\A s \in Sessions : \A name \in LoginChoices :
          (pc[s] = "idle" /\ user[s] = Unset /\ show_login(s, name)) =>
             IF name \in Roster
             THEN /\ user'[s] = name
                  /\ page'[s] = "student_level"
                  /\ main(s)' = "show_student_level"
             ELSE /\ msg'[s] = "Please select your name."
                  /\ user'[s] = Unset
                  /\ main(s)' = "show_login"]_vars

\* C10 witness: one session has logged in as a roster name and is on the
\* level screen, another pressed Continue on the placeholder and is on login.
C10_Witness ==
  \E s, t \in Sessions :
    /\ user[s] \in Roster
    /\ main(s) = "show_student_level"
    /\ user[t] = Unset
    /\ msg[t] = "Please select your name."
    /\ main(t) = "show_login"

\* C11: on the Level-Selection screen, Save Level records for the session's
\* user the level the slider shows, a level in 1..10 that is 5 as long as the
\* slider was never moved, and the session is on Student-View afterwards; any
\* other step leaves the session on Level-Selection and its levels as they
\* were, and a session that has not saved has no level recorded
C11_SaveLevel ==
  /\ [](\A s \in Sessions :
          /\ slider[s] \in 1..10
          /\ main(s) = "show_login" => slider[s] = slider_default
          /\ main(s) \in {"show_login", "show_student_level"} =>
               student_levels[s] = <<>>)
  /\ [][\A s \in Sessions :
          /\ slider'[s] # slider[s] =>
               \E level \in 1..10 : move_slider(s, level)
          /\ main(s) = "show_student_level" =>
               IF \E level \in 1..10 : show_student_level(s, level)
               THEN /\ DOMAIN student_levels'[s] = {user[s]}
                    /\ student_levels'[s][user[s]] = slider[s]
                    /\ main(s)' = "show_student_view"
               ELSE /\ main(s)' = "show_student_level"
                    /\ student_levels'[s] = student_levels[s]]_vars

\* one session has saved the untouched level 5 and is on Student-View, the
\* other moved the slider to 10 and is still on Level-Selection with no level
C11_Witness ==
  \E s, t \in Sessions :
    /\ main(s) = "show_student_view"
    /\ student_levels[s] = (user[s] :> slider_default)
    /\ main(t) = "show_student_level"
    /\ slider[t] = 10
    /\ student_levels[t] = <<>>

\* The row the scan of session s found is still at the position it was found
\* at.
row_in_place(s) ==
  /\ frame[s].idx - 1 \in 1..Len(rows)
  /\ rows[frame[s].idx - 1].id = frame[s].request_id

\* Session t is between the scan and the write of a call on the same id as
\* session s.
same_call(s, t) ==
  /\ t # s
  /\ pc[t] = "update_cell"
  /\ frame[t].request_id = frame[s].request_id

\* C12: when two sessions are both between scan and write of mark_as_helped on
\* the same id and the row is still where the scans found it, the write of
\* either one, and later the write of the other onto the row already helped,
\* raises no error and changes nothing but the status of that row, which is
\* helped afterwards
C12_ConcurrentMarks ==
  [][\A s \in Sessions :
       ( /\ pc[s] = "update_cell"
         /\ pc'[s] # "update_cell"
         /\ row_in_place(s)
         /\ \/ \E t \in Sessions : same_call(s, t)
            \/ rows[frame[s].idx - 1].status = "helped" )
       => /\ msg'[s] # "APIError"
          /\ pc'[s] = "idle"
          /\ header' = header
          /\ rows' = [rows EXCEPT ![frame[s].idx - 1].status = "helped"]]_vars

\* both sessions have scanned for the same pending id, of the second of two
\* rows, and neither has written yet
C12_Witness ==
  \E s, t \in Sessions :
    /\ pc[s] = "update_cell"
    /\ same_call(s, t)
    /\ row_in_place(s)
    /\ frame[s].idx = 3
    /\ frame[t].idx = 3
    /\ rows[2].status = "pending"
    /\ rows[1].status = "pending"

\* C13: a mark_as_helped whose id is the id of no row returns after its scan
\* without an error, and leaves row 1 and every data row as they were; no
\* write step follows the scan
C13_UnknownId ==
  [][\A s \in Sessions : \A id \in 1..MaxIds :
       (mark_as_helped(s, id) /\ id \notin Ids(rows))
       => /\ no_match'
          /\ pc'[s] = "idle"
          /\ frame'[s] = NoFrame
          /\ msg'[s] = ""
          /\ header' = header
          /\ rows' = rows]_vars

\* a scan has just ended without a match on a sheet that holds a pending and
\* a helped row, and no call is running
C13_Witness ==
  /\ no_match
  /\ \A s \in Sessions : pc[s] = "idle" /\ msg[s] = ""
  /\ \E i, j \in 1..Len(rows) :
       rows[i].status = "pending" /\ rows[j].status = "helped"

\* C14: the listing a read of the sheet yields holds every pending row of the
\* sheet exactly once and no other row, so no helped row; when the sheet has
\* no data row, or only helped rows, the listing is empty and the run ends
\* with the message for that case
C14_ListPending ==
  [][\A s \in Sessions :
       (pc[s] = "get_all_records" /\ pc'[s] # "get_all_records") =>
         LET listing == out'[s]
         IN  /\ \A i \in 1..Len(rows) :
                  rows[i].status = "pending" =>
                    Cardinality({k \in 1..Len(listing) : listing[k] = rows[i]}) = 1
             /\ \A k \in 1..Len(listing) :
                  /\ listing[k].status = "pending"
                  /\ \E i \in 1..Len(rows) : rows[i] = listing[k]
             /\ rows = <<>> =>
                  listing = <<>> /\ msg'[s] = "No help requests yet."
             /\ (rows # <<>> /\ \A i \in 1..Len(rows) : rows[i].status = "helped") =>
                  listing = <<>> /\ msg'[s] = "No pending requests."
             /\ listing # <<>> <=> pc'[s] = "render"]_vars

\* a session holds a listing of two rows, read from a sheet of three rows of
\* which one is helped
C14_Witness ==
  \E s \in Sessions :
    /\ pc[s] = "render"
    /\ Len(out[s]) = 2
    /\ Len(rows) = 3
    /\ Cardinality({i \in 1..3 : rows[i].status = "helped"}) = 1
    /\ \A k \in 1..2 : \E i \in 1..3 : rows[i] = out[s][k]

\* C15: with one call running at a time, the scan of mark_as_helped changes no
\* cell, and its write changes at most one: the status of the first row whose
\* id is the id asked for.  Row 1, the id, name, rating and timestamp of that
\* row, every other row, the number of rows and their order stay as they were
C15_MarkHelpedFrame ==
  [][\A s \in Sessions :
       /\ (\E id \in 1..MaxIds : mark_as_helped(s, id)) =>
            header' = header /\ rows' = rows
       /\ (pc[s] = "update_cell" /\ pc'[s] # "update_cell") =>
            LET i == CHOOSE k \in 1..Len(rows) :
                       /\ rows[k].id = frame[s].request_id
                       /\ \A j \in 1..(k - 1) : rows[j].id # frame[s].request_id
            IN  /\ \E k \in 1..Len(rows) : rows[k].id = frame[s].request_id
                /\ header' = header
                /\ Len(rows') = Len(rows)
                /\ \A k \in 1..Len(rows) :
                     IF k = i
                     THEN rows'[k] = [rows[k] EXCEPT !.status = "helped"]
                     ELSE rows'[k] = rows[k]]_vars

\* the second of three rows has been marked helped and the rows around it are
\* pending, with ratings and names that differ from row to row
C15_Witness ==
  /\ Len(rows) = 3
  /\ rows[2].status = "helped"
  /\ rows[1].status = "pending"
  /\ rows[3].status = "pending"
  /\ rows[1].rating # rows[2].rating
  /\ rows[1].name # rows[3].name
  /\ \A s \in Sessions : pc[s] = "idle" /\ msg[s] = ""

\* C16: the write of mark_as_helped is a step of its own after the scan, and
\* it is issued at the sheet row the scan found whatever the sheet holds by
\* then: a session between scan and write can always take the write step, the
\* step is its only way on, it reads nothing again, and when a resize has left
\* no row at that position the write is still sent and the API refuses it
C16_WriteAfterReset ==
  /\ [](\A s \in Sessions : pc[s] = "update_cell" => ENABLED write_helped(s))
  /\ [][\A s \in Sessions :
          (pc[s] = "update_cell" /\ pc'[s] # "update_cell") =>
            LET sheet == update_cell(header, rows, frame[s].idx)
            IN  /\ header' = sheet[1]
                /\ rows' = sheet[2]
                /\ ~in_grid(rows, frame[s].idx) =>
                     /\ rows' = rows
                     /\ msg'[s] = "APIError"]_vars

\* the write of a session came back refused: the row its scan found was gone
\* when the write arrived, which only a resize in between brings about; the
\* sheet is still empty after that resize
C16_Witness ==
  \E s \in Sessions :
    /\ msg[s] = "APIError"
    /\ pc[s] = "idle"
    /\ cleared = "reset"
    /\ rows = <<>>
    /\ nextId > 1

\* C17: a step that is not the resize of clear_all leaves every data row in
\* the sheet, at its position: the rows never get fewer and the row at each
\* position keeps its id, so rows stay in the order they were appended in,
\* which is the order of their ids
C17_OnlyResetRemoves ==
  /\ [](\A i, j \in 1..Len(rows) : i < j => rows[i].id < rows[j].id)
  /\ [][(\A s \in Sessions : ~clear_all(s)) =>
          /\ Len(rows') >= Len(rows)
          /\ \A i \in 1..Len(rows) : rows'[i].id = rows[i].id]_vars

\* after a resize earlier on, the sheet holds two rows again, the first of
\* them helped, while a session is between the round trips of a call
C17_Witness ==
  /\ Len(rows) = 2
  /\ rows[1].status = "helped"
  /\ rows[1].id > 1
  /\ \E s \in Sessions : pc[s] \in {"get_all_records", "update_cell", "append_row"}

\* C18: whenever the write of a mark_as_helped(x) turns the status of a row
\* from pending to helped, that row has the id x
C18_HelpedByOwnId ==
  [][\A s \in Sessions :
       (pc[s] = "update_cell" /\ pc'[s] # "update_cell") =>
         \A i \in 1..Len(rows) :
           (rows[i].status = "pending" /\ rows'[i].status = "helped") =>
             rows[i].id = frame[s].request_id]_vars

\* C19 as stated: while the sheet has no pending row (no data row, or only
\* helped rows), no step of any session removes a row
C19_NoRemovalWithoutPending ==
  [][list_pending(rows) = <<>> => Len(rows') >= Len(rows)]_vars

\* C19, amended: a run of the Instructor-View gets to the Clear ALL and Helped
\* controls only with a listing of its own that is not empty (a run that reads
\* no data row, or only helped rows, ends at once and changes nothing), and
\* rows are removed only by the Clear ALL of such a run.  The listing is the
\* run's own read: the sheet may have lost its last pending row since
C19_ResetNeedsListing ==
  /\ [](\A s \in Sessions :
          pc[s] = "render" =>
            /\ out[s] # <<>>
            /\ \A k \in 1..Len(out[s]) : out[s][k].status = "pending")
  /\ [][\A s \in Sessions :
          (/\ pc[s] = "get_all_records"
           /\ pc'[s] # "get_all_records"
           /\ list_pending(rows) = <<>>)
          => /\ pc'[s] = "idle"
             /\ msg'[s] \in {"No help requests yet.", "No pending requests."}
             /\ rows' = rows]_vars
  /\ [][Len(rows') < Len(rows) =>
          \E s \in Sessions :
            /\ button_reset(s)
            /\ out[s] # <<>>]_vars

\* a run holds its listing of two rows and stands before Clear ALL, while both
\* rows of the sheet have been marked helped by the other session since
C19_Witness ==
  \E s \in Sessions :
    /\ pc[s] = "render"
    /\ frame[s].click = ResetClick
    /\ Len(out[s]) = 2
    /\ Len(rows) = 2
    /\ list_pending(rows) = <<>>

\* C20: Student-View and Instructor-View are shown only to a session whose
\* user is set and whose page is not the level selection; no step unsets or
\* changes a user once set; a session that has left Login never shows Login
\* again, and one that has left Level-Selection shows only the two views from
\* then on; on either view, with no run going on, the session can switch to
\* the other view
C20_OneWayNavigation ==
  /\ [](\A s \in Sessions :
          /\ main(s) \in {"show_student_view", "show_instructor_view"} =>
               /\ user[s] \in Roster
               /\ page[s] = "student_view"
               /\ pc[s] = "idle" =>
                    \E choice \in {"Student View", "Instructor View"} :
                      ENABLED sidebar_radio(s, choice))
  /\ [][\A s \in Sessions :
          /\ user[s] # Unset => user'[s] = user[s]
          /\ main(s) # "show_login" => main(s)' # "show_login"
          /\ main(s) \in {"show_student_view", "show_instructor_view"} =>
               main(s)' \in {"show_student_view", "show_instructor_view"}]_vars

\* the only session logged in is back on Student-View after a run of its
\* Instructor-View, the run that wrote the header of the sheet
C20_Witness ==
  \E s \in Sessions :
    /\ main(s) = "show_student_view"
    /\ wrote
    /\ \A t \in Sessions \ {s} : user[t] = Unset

====
